---------------------------- MODULE Spec2Model ----------------------------
(***************************************************************************)
(* A model of validator.py: the USPS address validation pipeline.          *)
(*                                                                         *)
(*   Spec   the whole run of main(): token, input loading, the batch loop  *)
(*          and the final write; the blocking calls (POST, input, read,    *)
(*          GET, sleep, to_csv) and the prints before an exit may each be  *)
(*          cut by a KeyboardInterrupt.                                    *)
(*   SpecV  validate_usps_address alone, applied to one record and one     *)
(*          behaviour of the remote endpoint drawn from RemoteOutcomes.    *)
(*                                                                         *)
(* Python values: an Optional[str] is None or Str(s), so that no string    *)
(* is mistaken for None; a dict is a function from its keys; a raise is a  *)
(* record [raised |-> TRUE, exc |-> [type, msg]]; a filename is the        *)
(* sequence of its code points (below 256).                                *)
(***************************************************************************)
EXTENDS Integers, Sequences, FiniteSets

VARIABLES
    pc,             \* where main() is
    batch_size,     \* the module global BATCH_SIZE of this run
    tokenOutcome,   \* what the token endpoint did
    access_token,   \* main's access_token
    loadRes,        \* what load_input_csv was given and how it ended
    df,             \* main's df: the rows of the input table
    i,              \* the batch loop's i (0-based offset of the batch)
    batch,          \* df.iloc[i:i + BATCH_SIZE]
    row,            \* how many rows of batch the inner loop has taken
    all_validated_results,
    output,         \* the file data/validated_addresses.csv
    writeRes,       \* what to_csv did, once called
    exit_status,    \* the process: running, or exited with a code
    log,            \* the run's calls, in order
    v_pc,           \* SpecV: "call" before, "back" after the call
    address_details,\* SpecV: the record passed to validate_usps_address
    remote,         \* SpecV: what the address endpoint does
    v_ret           \* SpecV: what validate_usps_address returned or raised

vars == <<pc, batch_size, tokenOutcome, access_token, loadRes, df, i, batch,
          row, all_validated_results, output, writeRes, exit_status, log,
          v_pc, address_details, remote, v_ret>>

mainVars == <<pc, batch_size, tokenOutcome, access_token, loadRes, df, i,
              batch, row, all_validated_results, output, writeRes,
              exit_status, log>>

validatorVars == <<v_pc, address_details, remote, v_ret>>

---------------------------------------------------------------------------
(* Bounds and program constants *)

MaxRows == 5

MaxBatch == 2

BATCH_SIZE == 2

DELAY == 1

---------------------------------------------------------------------------
(* Python values *)

None == [t |-> "NoneType"]

Str(s) == [t |-> "str", v |-> s]

\* the float pandas puts where a dict has no value for a column
NaN == [t |-> "float", v |-> "nan"]

\* Python truthiness of an Optional[str]
Truthy(x) == x.t = "str" /\ x.v # ""

\* dict.get(k): None when the key is absent
DictGet(d, k) == IF k \in DOMAIN d THEN d[k] ELSE None

Digits == <<"0", "1", "2", "3", "4", "5", "6", "7", "8", "9">>

RECURSIVE IntToStr(_)
\* str(n) of a non-negative int
IntToStr(n) ==
    IF n < 10 THEN Digits[n + 1]
    ELSE IntToStr(n \div 10) \o Digits[(n % 10) + 1]

Raise(type, msg) == [raised |-> TRUE, exc |-> [type |-> type, msg |-> msg]]

\* str(KeyError(k)) is repr(k)
KeyError(k) == Raise("KeyError", "'" \o k \o "'")

AttributeError(what) ==
    Raise("AttributeError", "'" \o what \o "' object has no attribute 'get'")

\* `except Exception` catches every class but those deriving from
\* BaseException alone
IsException(type) == type \notin {"KeyboardInterrupt", "SystemExit"}

---------------------------------------------------------------------------
(* The input table *)

Columns == {"KEY", "STREET", "CITY", "STATE", "POST_CODE"}

\* load_input_csv checks no column: a table may lack any one of them
ColumnSets == {Columns} \cup {Columns \ {c} : c \in Columns}

Keys == {"K1", "K2"}

PostCodes == {10001, 7030}

\* row.to_dict() of a row of a table with every column
FullRecord(key, post_code) ==
    [c \in Columns |->
        IF c = "KEY" THEN key
        ELSE IF c = "STREET" THEN "1 Main St"
        ELSE IF c = "CITY" THEN "Hoboken"
        ELSE IF c = "STATE" THEN "NJ"
        ELSE post_code]

Restrict(f, D) == [k \in D |-> f[k]]

---------------------------------------------------------------------------
(* The address endpoint *)

AddressFields == {"streetAddress", "city", "state", "ZIPCode", "ZIPPlus4"}

NormalizedValue ==
    [streetAddress |-> Str("1 MAIN ST"), city |-> Str("HOBOKEN"),
     state |-> Str("NJ"), ZIPCode |-> Str("07030"), ZIPPlus4 |-> Str("1234")]

\* an address object: any subset of the fields, each null, empty or set
AddressObjects ==
    UNION {
        { [k \in D |-> IF shape[k] = "set" THEN NormalizedValue[k]
                       ELSE IF shape[k] = "empty" THEN Str("") ELSE None] :
            shape \in [D -> {"set", "empty", "null"}] } :
        D \in SUBSET AddressFields }

\* the JSON value under "address"
AddressValues ==
    {[type |-> "NoneType"], [type |-> "str"]}
    \cup {[type |-> "dict", obj |-> o] : o \in AddressObjects}

\* the parsed body of a 2xx response
ResponseBodies ==
    {[type |-> "list"], [type |-> "dict", has_address |-> FALSE]}
    \cup {[type |-> "dict", has_address |-> TRUE, address |-> a] :
            a \in AddressValues}

\* what requests.get / raise_for_status / response.json() may raise
RemoteExceptions ==
    {[type |-> "HTTPError", msg |-> "404 Client Error: Not Found for url"],
     [type |-> "HTTPError", msg |-> "500 Server Error: Internal Server Error"],
     [type |-> "ConnectionError", msg |-> "Connection refused"],
     [type |-> "JSONDecodeError", msg |-> "Expecting value: line 1 column 1"],
     [type |-> "MemoryError", msg |-> ""],
     [type |-> "RuntimeError", msg |-> "unexpected"],
     [type |-> "KeyboardInterrupt", msg |-> ""]}

RemoteOutcomes ==
    {[kind |-> "raise", exc |-> e] : e \in RemoteExceptions}
    \cup {[kind |-> "json", body |-> b] : b \in ResponseBodies}

---------------------------------------------------------------------------
(* validate_usps_address *)

\* lines 76-81: the first column params reads that the record lacks
MissingParam(details) ==
    IF "STREET" \notin DOMAIN details THEN Str("STREET")
    ELSE IF "CITY" \notin DOMAIN details THEN Str("CITY")
    ELSE IF "STATE" \notin DOMAIN details THEN Str("STATE")
    ELSE IF "POST_CODE" \notin DOMAIN details THEN Str("POST_CODE")
    ELSE None

\* lines 70-81: headers and params of the GET
RequestOf(details, token) ==
    [Authorization |-> "Bearer " \o token.v,
     streetAddress |-> details["STREET"],
     city |-> details["CITY"],
     state |-> details["STATE"],
     ZIPCode |-> IntToStr(details["POST_CODE"])]

\* as FullZip4, without the test of zip_plus_4
FullZip4AlwaysJoined(zip_code, zip_plus_4) ==
    IF Truthy(zip_code)
        THEN zip_code.v \o "-"
             \o (IF zip_plus_4.t = "str" THEN zip_plus_4.v ELSE "None")
    ELSE "N/A"

\* line 115
FullZip4(zip_code, zip_plus_4) ==
    IF Truthy(zip_code) /\ Truthy(zip_plus_4)
        THEN zip_code.v \o "-" \o zip_plus_4.v
    ELSE IF Truthy(zip_code) THEN zip_code.v
    ELSE "N/A"

\* as IsValid, without the test of zip_code
IsValidWithoutZip(street, city, state, zip_code) ==
    Truthy(street) /\ Truthy(city) /\ Truthy(state)

\* line 116
IsValid(street, city, state, zip_code) ==
    Truthy(street) /\ Truthy(city) /\ Truthy(state) /\ Truthy(zip_code)

\* lines 104-117: the dict of the success path
SuccessResult(details, validated_address) ==
    LET street == DictGet(validated_address, "streetAddress")
        city == DictGet(validated_address, "city")
        state == DictGet(validated_address, "state")
        zip_code == DictGet(validated_address, "ZIPCode")
        zip_plus_4 == DictGet(validated_address, "ZIPPlus4")
    IN  [KEY |-> details["KEY"],
         original_STREET |-> details["STREET"],
         original_CITY |-> details["CITY"],
         original_STATE |-> details["STATE"],
         original_POST_CODE |-> details["POST_CODE"],
         validated_STREET |-> street,
         validated_CITY |-> city,
         validated_STATE |-> state,
         validated_ZIPCode |-> zip_code,
         validated_ZIPPlus4 |-> zip_plus_4,
         full_zip4 |-> FullZip4(zip_code, zip_plus_4),
         is_valid |-> IsValid(street, city, state, zip_code)]

\* lines 125-139, 142-156, 159-173: the dict of the three handlers;
\* error_message is str(e)
ErrorResult(details, exc) ==
    [KEY |-> details["KEY"],
     original_STREET |-> details["STREET"],
     original_CITY |-> details["CITY"],
     original_STATE |-> details["STATE"],
     original_POST_CODE |-> details["POST_CODE"],
     validated_STREET |-> None,
     validated_CITY |-> None,
     validated_STATE |-> None,
     validated_ZIPCode |-> None,
     validated_ZIPPlus4 |-> None,
     full_zip4 |-> "ERROR",
     is_valid |-> FALSE,
     error_message |-> Str(exc.msg)]

\* lines 87-117: the body of the try, to a return or the exception it raises
TryBody(details, outcome) ==
    IF outcome.kind = "raise" THEN [raised |-> TRUE, exc |-> outcome.exc]
    ELSE IF outcome.body.type # "dict" THEN AttributeError(outcome.body.type)
    ELSE LET validated_address ==
                 IF outcome.body.has_address THEN outcome.body.address
                 ELSE [type |-> "dict", obj |-> <<>>]
         IN  IF validated_address.type # "dict"
                 THEN AttributeError(validated_address.type)
             ELSE IF "KEY" \notin DOMAIN details THEN KeyError("KEY")
             ELSE [raised |-> FALSE,
                   value |-> SuccessResult(details, validated_address.obj)]

\* lines 119-173: the handler an Exception of the try reaches
Handler(details, exc) ==
    IF "KEY" \notin DOMAIN details THEN KeyError("KEY")
    ELSE [raised |-> FALSE, value |-> ErrorResult(details, exc)]

\* lines 69-173; requests: the GETs issued. What is no Exception (a
\* KeyboardInterrupt) passes the three handlers
validate_usps_address(details, token, outcome) ==
    IF MissingParam(details) # None
        THEN [ret |-> KeyError(MissingParam(details).v), requests |-> <<>>]
    ELSE LET body == TryBody(details, outcome)
         IN  [ret |-> IF body.raised /\ IsException(body.exc.type)
                          THEN Handler(details, body.exc)
                      ELSE body,
              requests |-> <<RequestOf(details, token)>>]

---------------------------------------------------------------------------
(* get_usps_token *)

TokenObjects ==
    {<<>>,
     [expires_in |-> 3599],
     [access_token |-> None, expires_in |-> 3599],
     [access_token |-> Str(""), expires_in |-> 3599],
     [access_token |-> Str("TOKEN"), expires_in |-> 3599]}

TokenExceptions ==
    {[type |-> "HTTPError", msg |-> "401 Client Error: Unauthorized for url"],
     [type |-> "ConnectionError", msg |-> "Connection refused"],
     [type |-> "JSONDecodeError", msg |-> "Expecting value: line 1 column 1"],
     [type |-> "KeyboardInterrupt", msg |-> ""]}

\* what the token endpoint may do
TokenOutcomes ==
    {[kind |-> "raise", exc |-> e] : e \in TokenExceptions}
    \cup {[kind |-> "json", body |-> [type |-> "list"]]}
    \cup {[kind |-> "json", body |-> [type |-> "dict", obj |-> o]] :
            o \in TokenObjects}

\* repr() of an Optional[str] (of a text without quotes)
ReprOptStr(x) == IF x.t = "str" THEN "'" \o x.v \o "'" ELSE "None"

\* repr(token_data) of a parsed token object, its keys in the order of
\* the body: access_token, then expires_in
ReprTokenData(obj) ==
    LET token_part ==
            IF "access_token" \in DOMAIN obj
                THEN "'access_token': " \o ReprOptStr(obj["access_token"])
            ELSE ""
        expires_part ==
            IF "expires_in" \in DOMAIN obj
                THEN "'expires_in': " \o IntToStr(obj["expires_in"])
            ELSE ""
        sep == IF token_part # "" /\ expires_part # "" THEN ", " ELSE ""
    IN  "{" \o token_part \o sep \o expires_part \o "}"

\* as get_usps_token, without the test of lines 48-49
get_usps_token_unchecked(outcome) ==
    IF outcome.kind = "raise" THEN [raised |-> TRUE, exc |-> outcome.exc]
    ELSE IF outcome.body.type # "dict" THEN AttributeError(outcome.body.type)
    ELSE [raised |-> FALSE,
          value |-> DictGet(outcome.body.obj, "access_token")]

\* lines 28-65: every handler re-raises
get_usps_token(outcome) ==
    IF outcome.kind = "raise" THEN [raised |-> TRUE, exc |-> outcome.exc]
    ELSE IF outcome.body.type # "dict" THEN AttributeError(outcome.body.type)
    ELSE LET token == DictGet(outcome.body.obj, "access_token")
         IN  IF ~Truthy(token)
                 THEN Raise("ValueError",
                            "Access token not found in response: "
                            \o ReprTokenData(outcome.body.obj))
             ELSE [raised |-> FALSE, value |-> token]

---------------------------------------------------------------------------
(* load_input_csv; a filename is the sequence of its code points *)

\* the printable ASCII characters of code points 32 to 95
AsciiLow ==
    <<
      " ", "!", "\"", "#", "$", "%", "&", "'", "(", ")",
      "*", "+", ",", "-", ".", "/", "0", "1", "2", "3",
      "4", "5", "6", "7", "8", "9", ":", ";", "<", "=",
      ">", "?", "@", "A", "B", "C", "D", "E", "F", "G",
      "H", "I", "J", "K", "L", "M", "N", "O", "P", "Q",
      "R", "S", "T", "U", "V", "W", "X", "Y", "Z", "[",
      "\\", "]", "^", "_"
    >>

\* the printable ASCII characters of code points 97 to 126
AsciiHigh ==
    <<
      "a", "b", "c", "d", "e", "f", "g", "h", "i", "j",
      "k", "l", "m", "n", "o", "p", "q", "r", "s", "t",
      "u", "v", "w", "x", "y", "z", "{", "|", "}", "~"
    >>

\* ord(c) of a printable ASCII character
Ord(c) ==
    IF \E k \in 1..Len(AsciiLow) : AsciiLow[k] = c
        THEN 31 + CHOOSE k \in 1..Len(AsciiLow) : AsciiLow[k] = c
    ELSE 96 + CHOOSE k \in 1..Len(AsciiHigh) : AsciiHigh[k] = c

\* the code points of a text written as its characters
Text(chars) == [k \in 1..Len(chars) |-> Ord(chars[k])]

\* str.lower() of one character below 256: A-Z and the Latin-1 capitals
LowerChar(c) ==
    IF (c >= 65 /\ c <= 90) \/ (c >= 192 /\ c <= 214) \/ (c >= 216 /\ c <= 222)
        THEN c + 32
    ELSE c

\* str.lower()
Lower(s) == [k \in 1..Len(s) |-> LowerChar(s[k])]

\* str.isspace() of one character
IsSpace(c) ==
    \/ c \in {9, 10, 11, 12, 13, 28, 29, 30, 31, 32, 133, 160}
    \/ c \in {5760, 8232, 8233, 8239, 8287, 12288}
    \/ (c >= 8192 /\ c <= 8202)

RECURSIVE Strip(_)
\* str.strip()
Strip(s) ==
    IF s = <<>> THEN s
    ELSE IF IsSpace(Head(s)) THEN Strip(Tail(s))
    ELSE IF IsSpace(s[Len(s)]) THEN Strip(SubSeq(s, 1, Len(s) - 1))
    ELSE s

\* str.endswith(suffix)
EndsWith(s, suffix) ==
    /\ Len(suffix) <= Len(s)
    /\ SubSeq(s, Len(s) - Len(suffix) + 1, Len(s)) = suffix

RECURSIVE SplitPath(_)
\* s.split("/")
SplitPath(s) ==
    LET seps == {k \in 1..Len(s) : s[k] = Ord("/")}
    IN  IF seps = {} THEN <<s>>
        ELSE LET k == CHOOSE m \in seps : \A n \in seps : m <= n
             IN  <<SubSeq(s, 1, k - 1)>> \o SplitPath(SubSeq(s, k + 1, Len(s)))

IsPathPart(p) == p # <<>> /\ p # <<Ord(".")>>

\* Path(filename).name on POSIX: the last component, empty and "."
\* components dropped; "" when none is left
PathName(s) ==
    LET parts == SelectSeq(SplitPath(s), IsPathPart)
    IN  IF parts = <<>> THEN <<>> ELSE parts[Len(parts)]

\* line 189
excel_exts ==
    {Text(<<".", "x", "l", "s", "x">>), Text(<<".", "x", "l", "s", "m">>),
     Text(<<".", "x", "l", "s">>), Text(<<".", "x", "l", "t", "x">>),
     Text(<<".", "x", "l", "t", "m">>)}

csv_ext == Text(<<".", "c", "s", "v">>)

Exit1(msg) == [tag |-> "exit", code |-> 1, msg |-> msg]

\* as load_input_csv, without the test of lines 205-207
load_input_csv_unchecked_path(inp, exists, read) ==
    IF inp.kind = "raise" THEN [tag |-> "raise", exc |-> inp.exc]
    ELSE
    LET filename == Strip(inp.text)
        lower_name == Lower(filename)
    IN  IF \A k \in 1..Len(PathName(filename)) :
                PathName(filename)[k] # Ord(".")
            THEN Exit1("Missing .csv extension")
        ELSE IF \E ext \in excel_exts : EndsWith(lower_name, ext)
            THEN Exit1("Please convert your Excel file to a .csv")
        ELSE IF ~EndsWith(lower_name, csv_ext)
            THEN Exit1("Missing .csv extension")
        ELSE IF read.kind = "raise"
            THEN IF IsException(read.exc.type)
                    THEN Exit1("Error loading CSV file: " \o read.exc.msg)
                 ELSE [tag |-> "raise", exc |-> read.exc]
        ELSE [tag |-> "return", df_local |-> read.rows]

\* lines 176-216. inp: what input() does; exists: what csv_path.exists()
\* does; read: what pd.read_csv does. input() and exists() are outside
\* every try: what they raise leaves the function, as does what read_csv
\* raises that is no Exception
load_input_csv(inp, exists, read) ==
    IF inp.kind = "raise" THEN [tag |-> "raise", exc |-> inp.exc]
    ELSE
    LET filename == Strip(inp.text)
        lower_name == Lower(filename)
    IN  IF \A k \in 1..Len(PathName(filename)) :
                PathName(filename)[k] # Ord(".")
            THEN Exit1("Missing .csv extension")
        ELSE IF \E ext \in excel_exts : EndsWith(lower_name, ext)
            THEN Exit1("Please convert your Excel file to a .csv")
        ELSE IF ~EndsWith(lower_name, csv_ext)
            THEN Exit1("Missing .csv extension")
        ELSE IF exists.kind = "raise"
            THEN [tag |-> "raise", exc |-> exists.exc]
        ELSE IF ~exists.value
            THEN Exit1("filename not found in data/ folder. Please check this file has been moved to the right folder")
        ELSE IF read.kind = "raise"
            THEN IF IsException(read.exc.type)
                    THEN Exit1("Error loading CSV file: " \o read.exc.msg)
                 ELSE [tag |-> "raise", exc |-> read.exc]
        ELSE [tag |-> "return", df_local |-> read.rows]

\* what the user may type: a tab is 9, a no-break space 160
Filenames ==
    {Text(<<"a", ".", "c", "s", "v">>),
     <<9>> \o Text(<<" ", "D", ".", "C", "s", "V">>) \o <<160, 13>>,
     Text(<<"a", ".", "x", "l", "s", ".", "c", "s", "v">>),
     Text(<<"a">>),
     <<>>,
     Text(<<"d", ".", "d", "/", "a">>),
     Text(<<"a", ".", "c", "s", "v", "/">>),
     Text(<<"a", ".", "c", "s", "v", "/", ".">>),
     Text(<<"a", ".", "x", "l", "s", "x">>),
     Text(<<"a", ".", "X", "L", "S">>),
     Text(<<"a", ".", "c", "s", "v", ".", "x", "l", "t", "m">>),
     Text(<<"a", ".", "t", "x", "t">>)}

\* what input() may do
InputOutcomes ==
    {[kind |-> "line", text |-> f] : f \in Filenames}
    \cup {[kind |-> "raise",
           exc |-> [type |-> "EOFError", msg |-> "EOF when reading a line"]],
          [kind |-> "raise",
           exc |-> [type |-> "KeyboardInterrupt", msg |-> ""]]}

\* what csv_path.exists() may do: Path.exists answers False for a missing
\* file and raises every other OSError of stat
ExistsOutcomes ==
    {[kind |-> "value", value |-> TRUE],
     [kind |-> "value", value |-> FALSE],
     [kind |-> "raise",
      exc |-> [type |-> "PermissionError",
               msg |-> "[Errno 13] Permission denied"]],
     [kind |-> "raise",
      exc |-> [type |-> "OSError", msg |-> "[Errno 36] File name too long"]]}

\* the KEY column of a table of n rows: distinct keys, or one key repeated
\* (load_input_csv does not check that KEY is unique)
KeyColumns(n) ==
    {[k \in 1..n |-> "K" \o IntToStr(k)], [k \in 1..n |-> "K1"]}

\* the tables pd.read_csv may return: up to MaxRows rows over one column set
Tables ==
    UNION {{[k \in 1..n |-> Restrict(FullRecord(keys[k], 7030), cols)] :
                keys \in KeyColumns(n)} :
            n \in 0..MaxRows, cols \in ColumnSets}

\* what pd.read_csv may do
ReadOutcomes ==
    {[kind |-> "raise",
      exc |-> [type |-> "EmptyDataError",
               msg |-> "No columns to parse from file"]],
     [kind |-> "raise", exc |-> [type |-> "KeyboardInterrupt", msg |-> ""]]}
    \cup {[kind |-> "rows", rows |-> t] : t \in Tables}

---------------------------------------------------------------------------
(* SpecV: validate_usps_address on one record and one remote outcome *)

ValidatorRecords ==
    {Restrict(FullRecord(k, p), cols) :
        k \in Keys, p \in PostCodes, cols \in ColumnSets}

Pending == [raised |-> FALSE, value |-> <<>>]

\* data/validated_addresses.csv when no run has written it
NoFile == [exists |-> FALSE]

Running == [exited |-> FALSE]

Exited(code) == [exited |-> TRUE, code |-> code]

NoCall == [ret |-> Pending, requests |-> <<>>]

MainIdle ==
    /\ pc = "idle"
    /\ batch_size = BATCH_SIZE
    /\ tokenOutcome = [kind |-> "none"]
    /\ access_token = None
    /\ loadRes = [tag |-> "none"]
    /\ df = <<>>
    /\ i = 0
    /\ batch = <<>>
    /\ row = 0
    /\ all_validated_results = <<>>
    /\ output = NoFile
    /\ writeRes = "none"
    /\ exit_status = Running
    /\ log = <<>>

InitV ==
    /\ MainIdle
    /\ v_pc = "call"
    /\ address_details \in ValidatorRecords
    /\ remote \in RemoteOutcomes
    /\ v_ret = NoCall

CallValidate ==
    /\ v_pc = "call"
    /\ v_ret' = validate_usps_address(address_details, Str("TOKEN"), remote)
    /\ v_pc' = "back"
    /\ UNCHANGED <<address_details, remote>>
    /\ UNCHANGED mainVars

NextV == CallValidate

SpecV == InitV /\ [][NextV]_vars

---------------------------------------------------------------------------
(* main *)

KeyboardInterrupt == [type |-> "KeyboardInterrupt", msg |-> ""]

\* the remote outcomes a run draws from, one per call
PipelineOutcomes ==
    {[kind |-> "raise",
      exc |-> [type |-> "HTTPError",
               msg |-> "404 Client Error: Not Found for url"]],
     [kind |-> "raise", exc |-> KeyboardInterrupt],
     [kind |-> "json",
      body |-> [type |-> "dict", has_address |-> TRUE,
                address |-> [type |-> "dict", obj |-> NormalizedValue]]],
     [kind |-> "json", body |-> [type |-> "dict", has_address |-> FALSE]]}

Event(ev, arg) == [ev |-> ev, arg |-> arg]

\* df.iloc[a:b]: the rows with their index labels
Slice(frame, a, b) ==
    LET hi == IF b < Len(frame) THEN b ELSE Len(frame)
    IN  [k \in 1..(IF hi > a THEN hi - a ELSE 0) |->
            [index |-> a + k - 1, data |-> frame[a + k]]]

ResultColumns ==
    <<"KEY", "original_STREET", "original_CITY", "original_STATE",
      "original_POST_CODE", "validated_STREET", "validated_CITY",
      "validated_STATE", "validated_ZIPCode", "validated_ZIPPlus4",
      "full_zip4", "is_valid">>

Range(s) == {s[k] : k \in 1..Len(s)}

\* pd.DataFrame(list of dicts): the union of the keys, NaN where one is absent
DataFrame(dicts) ==
    LET columns ==
            IF \E k \in 1..Len(dicts) : "error_message" \in DOMAIN dicts[k]
                THEN Append(ResultColumns, "error_message")
            ELSE ResultColumns
    IN  [columns |-> columns,
         rows |-> [k \in 1..Len(dicts) |->
                     [c \in Range(columns) |->
                         IF c \in DOMAIN dicts[k] THEN dicts[k][c]
                         ELSE NaN]]]

\* validated_df["is_valid"].sum()
SumIsValid(frame) ==
    Cardinality({k \in 1..Len(frame.rows) : frame.rows[k]["is_valid"]})

\* the text to_csv writes for the value x of column c: a bool by its name,
\* an int in decimal, None and NaN as the empty field
CsvCell(c, x) ==
    IF c = "is_valid" THEN (IF x THEN "True" ELSE "False")
    ELSE IF c = "original_POST_CODE" THEN IntToStr(x)
    ELSE IF c \in {"validated_STREET", "validated_CITY", "validated_STATE",
                   "validated_ZIPCode", "validated_ZIPPlus4", "error_message"}
        THEN (IF x.t = "str" THEN x.v ELSE "")
    ELSE x

\* the file to_csv(index=False) makes of a frame: the header and, for each
\* row, its cells
CsvFile(frame) ==
    [exists |-> TRUE,
     columns |-> frame.columns,
     rows |-> [k \in 1..Len(frame.rows) |->
                 [c \in Range(frame.columns) |->
                     CsvCell(c, frame.rows[k][c])]],
     cut |-> "none"]

\* the file cut after the header and m whole rows; tail tells what follows
\* them: nothing ("none"), or a part of the text of row m + 1, ending
\* anywhere inside it ("row")
Truncated(file, m, tail) ==
    [exists |-> TRUE, columns |-> file.columns,
     rows |-> SubSeq(file.rows, 1, m), cut |-> tail]

\* the file an earlier run left in data/
StaleFile ==
    CsvFile(DataFrame(<<SuccessResult(FullRecord("K0", 10001),
                                      NormalizedValue)>>))

\* data/validated_addresses.csv when the run starts
InitialFiles == {NoFile, StaleFile}

\* what to_csv may do: write the file, or raise (no data/ directory under
\* the working directory, no permission, a full disk, an interrupt)
WriteOutcomes == {"ok", "OSError", "KeyboardInterrupt"}

\* the file opened for writing and nothing written to it
EmptyFile ==
    [exists |-> TRUE, columns |-> <<>>, rows |-> <<>>, cut |-> "none"]

\* the file holding a part of the header line, ending anywhere inside it
HeaderCut ==
    [exists |-> TRUE, columns |-> <<>>, rows |-> <<>>, cut |-> "header"]

\* what a to_csv that raised w leaves of the file it was to write: the file
\* as it was (nothing opened), opened and empty, cut inside the header, cut
\* after some rows or inside the next one; an interrupt may also come when
\* every row has been written
FilesLeft(before, file, w) ==
    {before, EmptyFile, HeaderCut}
    \cup {Truncated(file, m, tail) :
            m \in 0..(Len(file.rows) - 1), tail \in {"none", "row"}}
    \cup (IF w = "KeyboardInterrupt" THEN {file} ELSE {})

Init ==
    /\ pc = "get_token"
    /\ batch_size \in {BATCH_SIZE} \cup (1..MaxBatch)
    /\ tokenOutcome = [kind |-> "none"]
    /\ access_token = None
    /\ loadRes = [tag |-> "none"]
    /\ df = <<>>
    /\ i = 0
    /\ batch = <<>>
    /\ row = 0
    /\ all_validated_results = <<>>
    /\ output \in InitialFiles
    /\ writeRes = "none"
    /\ exit_status = Running
    /\ log = <<>>
    /\ v_pc = "idle"
    /\ address_details = <<>>
    /\ remote = [kind |-> "none"]
    /\ v_ret = NoCall

\* lines 220-222: the call of get_usps_token; an Exception it raises is
\* caught by `except Exception`, a KeyboardInterrupt inside the POST is not
GetToken ==
    /\ pc = "get_token"
    /\ \E outcome \in TokenOutcomes :
        LET got == get_usps_token(outcome)
        IN  /\ tokenOutcome' = outcome
            /\ log' = Append(log, Event("token_request", 0))
            /\ IF got.raised /\ IsException(got.exc.type)
                 THEN /\ pc' = "token_failed"
                      /\ UNCHANGED <<access_token, exit_status>>
               ELSE IF got.raised
                 THEN /\ pc' = "interrupted"
                      /\ exit_status' = Exited(130)
                      /\ UNCHANGED access_token
                 ELSE /\ pc' = "load_csv"
                      /\ access_token' = got.value
                      /\ UNCHANGED exit_status
    /\ UNCHANGED <<batch_size, loadRes, df, i, batch, row,
                   all_validated_results, output, writeRes>>
    /\ UNCHANGED validatorVars

\* lines 54-65, 223-225: the prints of a token failure (in the handlers of
\* get_usps_token and in main) and exit(1)
ExitTokenFailure ==
    /\ pc = "token_failed"
    /\ pc' = "auth_failed"
    /\ exit_status' = Exited(1)
    /\ UNCHANGED <<batch_size, tokenOutcome, access_token, loadRes, df, i,
                   batch, row, all_validated_results, output, writeRes, log>>
    /\ UNCHANGED validatorVars

\* lines 227-229, 236-239: the call of load_input_csv, to the point where
\* it returns the table or has found the input bad (a failed check, or an
\* Exception of input() or exists() that reaches `except Exception`); a
\* KeyboardInterrupt is not caught
LoadCsv ==
    /\ pc = "load_csv"
    /\ \E inp \in InputOutcomes, exists \in ExistsOutcomes,
          read \in ReadOutcomes :
        LET got == load_input_csv(inp, exists, read)
        IN  /\ loadRes' = [tag |-> got.tag, inp |-> inp, exists |-> exists,
                            read |-> IF read.kind = "raise" THEN read.exc.type
                                     ELSE "rows"]
            /\ log' = Append(log, Event("load_input_csv", 0))
            /\ IF got.tag = "exit"
                    \/ (got.tag = "raise" /\ IsException(got.exc.type))
                 THEN /\ pc' = "input_rejected"
                      /\ UNCHANGED <<df, exit_status>>
               ELSE IF got.tag = "raise"
                 THEN /\ pc' = "interrupted"
                      /\ exit_status' = Exited(130)
                      /\ UNCHANGED df
                 ELSE /\ pc' = "for_batch"
                      /\ df' = got.df_local
                      /\ UNCHANGED exit_status
    /\ i' = 0
    /\ UNCHANGED <<batch_size, tokenOutcome, access_token, batch, row,
                   all_validated_results, output, writeRes>>
    /\ UNCHANGED validatorVars

\* lines 185-186, 191-192, 196-197, 206-207, 215-216, 230-233: the print
\* of the input failure and sys.exit(1) or exit(1)
ExitInputFailure ==
    /\ pc = "input_rejected"
    /\ pc' = "input_failed"
    /\ exit_status' = Exited(1)
    /\ UNCHANGED <<batch_size, tokenOutcome, access_token, loadRes, df, i,
                   batch, row, all_validated_results, output, writeRes, log>>
    /\ UNCHANGED validatorVars

\* lines 240-242: the head of the batch loop
ForBatch ==
    /\ pc = "for_batch"
    /\ IF i < Len(df)
         THEN /\ batch' = Slice(df, i, i + batch_size)
              /\ row' = 0
              /\ log' = Append(log, Event("batch", i))
              /\ pc' = "for_row"
         ELSE /\ pc' = "finalize"
              /\ UNCHANGED <<batch, row, log>>
    /\ UNCHANGED <<batch_size, tokenOutcome, access_token, loadRes, df, i,
                   all_validated_results, output, writeRes, exit_status>>
    /\ UNCHANGED validatorVars

\* as ValidateRow, keeping only the rows whose call succeeded
ValidateRowSkipFailed ==
    /\ pc = "for_row"
    /\ row < Len(batch)
    /\ \E outcome \in PipelineOutcomes :
        LET address_data == batch[row + 1].data
            call == validate_usps_address(address_data, access_token, outcome)
        IN  /\ log' = log
                      \o <<Event("validate", batch[row + 1].index)>>
                      \o [k \in 1..Len(call.requests) |->
                            Event("address_request", batch[row + 1].index)]
            /\ IF call.ret.raised /\ IsException(call.ret.exc.type)
                 THEN /\ pc' = "crashed"
                      /\ exit_status' = Exited(1)
                      /\ UNCHANGED <<all_validated_results, row>>
               ELSE IF call.ret.raised
                 THEN /\ pc' = "interrupted"
                      /\ exit_status' = Exited(130)
                      /\ UNCHANGED <<all_validated_results, row>>
                 ELSE /\ all_validated_results' =
                            IF "error_message" \in DOMAIN call.ret.value
                                THEN all_validated_results
                            ELSE Append(all_validated_results, call.ret.value)
                      /\ row' = row + 1
                      /\ UNCHANGED <<pc, exit_status>>
    /\ UNCHANGED <<batch_size, tokenOutcome, access_token, loadRes, df, i,
                   batch, output, writeRes>>
    /\ UNCHANGED validatorVars

\* lines 244-248: one row of the batch. What validate_usps_address raises
\* is uncaught in main: a traceback and exit code 1, or, for a
\* KeyboardInterrupt inside the GET, the end of an interrupted run
ValidateRow ==
    /\ pc = "for_row"
    /\ row < Len(batch)
    /\ \E outcome \in PipelineOutcomes :
        LET address_data == batch[row + 1].data
            call == validate_usps_address(address_data, access_token, outcome)
        IN  /\ log' = log
                      \o <<Event("validate", batch[row + 1].index)>>
                      \o [k \in 1..Len(call.requests) |->
                            Event("address_request", batch[row + 1].index)]
            /\ IF call.ret.raised /\ IsException(call.ret.exc.type)
                 THEN /\ pc' = "crashed"
                      /\ exit_status' = Exited(1)
                      /\ UNCHANGED <<all_validated_results, row>>
               ELSE IF call.ret.raised
                 THEN /\ pc' = "interrupted"
                      /\ exit_status' = Exited(130)
                      /\ UNCHANGED <<all_validated_results, row>>
                 ELSE /\ all_validated_results' =
                            Append(all_validated_results, call.ret.value)
                      /\ row' = row + 1
                      /\ UNCHANGED <<pc, exit_status>>
    /\ UNCHANGED <<batch_size, tokenOutcome, access_token, loadRes, df, i,
                   batch, output, writeRes>>
    /\ UNCHANGED validatorVars

\* as EndBatch, sleeping after the last batch too
EndBatchAlwaysSleeps ==
    /\ pc = "for_row"
    /\ row = Len(batch)
    /\ \E interrupted \in BOOLEAN :
        /\ log' = Append(log, Event("sleep", DELAY))
        /\ IF interrupted
             THEN /\ pc' = "interrupted"
                  /\ exit_status' = Exited(130)
                  /\ UNCHANGED i
             ELSE /\ i' = i + batch_size
                  /\ pc' = "for_batch"
                  /\ UNCHANGED exit_status
    /\ UNCHANGED <<batch_size, tokenOutcome, access_token, loadRes, df,
                   batch, row, all_validated_results, output, writeRes>>
    /\ UNCHANGED validatorVars

\* as EndBatch, saving the results so far after every batch
EndBatchCheckpoints ==
    /\ pc = "for_row"
    /\ row = Len(batch)
    /\ \E interrupted \in BOOLEAN :
        /\ interrupted => i + batch_size < Len(df)
        /\ log' = (IF i + batch_size < Len(df)
                     THEN Append(log, Event("sleep", DELAY))
                   ELSE log) \o <<Event("to_csv", 0)>>
        /\ IF interrupted
             THEN /\ pc' = "interrupted"
                  /\ exit_status' = Exited(130)
                  /\ UNCHANGED i
             ELSE /\ i' = i + batch_size
                  /\ pc' = "for_batch"
                  /\ UNCHANGED exit_status
    /\ output' = CsvFile(DataFrame(all_validated_results))
    /\ UNCHANGED <<batch_size, tokenOutcome, access_token, loadRes, df,
                   batch, row, all_validated_results, writeRes>>
    /\ UNCHANGED validatorVars

\* lines 250-253: the end of a batch; the sleep may be cut by a
\* KeyboardInterrupt
EndBatch ==
    /\ pc = "for_row"
    /\ row = Len(batch)
    /\ \E interrupted \in BOOLEAN :
        /\ interrupted => i + batch_size < Len(df)
        /\ log' = IF i + batch_size < Len(df)
                    THEN Append(log, Event("sleep", DELAY))
                  ELSE log
        /\ IF interrupted
             THEN /\ pc' = "interrupted"
                  /\ exit_status' = Exited(130)
                  /\ UNCHANGED i
             ELSE /\ i' = i + batch_size
                  /\ pc' = "for_batch"
                  /\ UNCHANGED exit_status
    /\ UNCHANGED <<batch_size, tokenOutcome, access_token, loadRes, df,
                   batch, row, all_validated_results, output, writeRes>>
    /\ UNCHANGED validatorVars

\* lines 255-264, 268-269. to_csv writes data/validated_addresses.csv under
\* the working directory; what it raises is uncaught: an OSError ends the
\* run with a traceback and exit code 1, a KeyboardInterrupt ends it
\* interrupted. After a write that returned, the prints of Report follow
Finalize ==
    /\ pc = "finalize"
    /\ IF all_validated_results # <<>>
         THEN LET validated_df == DataFrame(all_validated_results)
                  file == CsvFile(validated_df)
              IN  IF SumIsValid(validated_df) = 0
                    THEN /\ pc' = "all_invalid"
                         /\ exit_status' = Exited(1)
                         /\ UNCHANGED <<output, writeRes, log>>
                    ELSE /\ log' = Append(log, Event("to_csv", 0))
                         /\ \E w \in WriteOutcomes :
                              /\ writeRes' = w
                              /\ IF w = "ok"
                                   THEN /\ output' = file
                                        /\ pc' = "report"
                                        /\ UNCHANGED exit_status
                                   ELSE /\ output' \in
                                             FilesLeft(output, file, w)
                                        /\ pc' = IF w = "OSError"
                                                   THEN "write_failed"
                                                 ELSE "interrupted"
                                        /\ exit_status' = IF w = "OSError"
                                                            THEN Exited(1)
                                                          ELSE Exited(130)
         ELSE /\ pc' = "done"
              /\ exit_status' = Exited(0)
              /\ UNCHANGED <<output, writeRes, log>>
    /\ UNCHANGED <<batch_size, tokenOutcome, access_token, loadRes, df, i,
                   batch, row, all_validated_results>>
    /\ UNCHANGED validatorVars

\* lines 265-267: the prints after the write, and the return of main
Report ==
    /\ pc = "report"
    /\ pc' = "done"
    /\ exit_status' = Exited(0)
    /\ UNCHANGED <<batch_size, tokenOutcome, access_token, loadRes, df, i,
                   batch, row, all_validated_results, output, writeRes, log>>
    /\ UNCHANGED validatorVars

RunningPcs ==
    {"get_token", "token_failed", "load_csv", "input_rejected", "for_batch",
     "for_row", "finalize", "report"}

\* a KeyboardInterrupt between two calls or inside a print: no handler of
\* the file catches a BaseException
Interrupt ==
    /\ pc \in RunningPcs
    /\ pc' = "interrupted"
    /\ exit_status' = Exited(130)
    /\ UNCHANGED <<batch_size, tokenOutcome, access_token, loadRes, df, i,
                   batch, row, all_validated_results, output, writeRes, log>>
    /\ UNCHANGED validatorVars

Next ==
    \/ GetToken
    \/ ExitTokenFailure
    \/ LoadCsv
    \/ ExitInputFailure
    \/ ForBatch
    \/ ValidateRow
    \/ EndBatch
    \/ Finalize
    \/ Report
    \/ Interrupt

Spec == Init /\ [][Next]_vars

---------------------------------------------------------------------------
(* What the claims speak of *)

\* how many calls of one kind the run has made
Count(ev) == Cardinality({k \in 1..Len(log) : log[k].ev = ev})

\* how many times row idx of the table was handed to the validator
Submitted(idx) ==
    Cardinality({k \in 1..Len(log) : log[k] = Event("validate", idx)})

\* the batch loop has run to its end
LoopFinished ==
    \/ pc \in {"finalize", "report", "done", "all_invalid", "write_failed"}
    \/ writeRes # "none"

\* main has gone through its last step without being interrupted there
RunEnded == pc \in {"done", "all_invalid", "write_failed"}

NonEmpty(x) == x # None /\ x # Str("")

IsPrefix(a, b) == Len(a) <= Len(b) /\ SubSeq(b, 1, Len(a)) = a

\* ceil(n / b)
CeilDiv(n, b) == (n + b - 1) \div b

\* the size of group g of n records in groups of b
GroupSize(n, b, g) == IF g < CeilDiv(n, b) THEN b ELSE n - b * (CeilDiv(n, b) - 1)

RECURSIVE ExpectedLoop(_, _, _)
\* groups g.. of n records in groups of b: each group's start, its records in
\* input order, and one sleep after every group but the last
ExpectedLoop(n, b, g) ==
    IF g > CeilDiv(n, b) THEN <<>>
    ELSE <<Event("batch", b * (g - 1))>>
         \o [k \in 1..GroupSize(n, b, g) |->
                Event("validate", b * (g - 1) + k - 1)]
         \o (IF g < CeilDiv(n, b) THEN <<Event("sleep", DELAY)>> ELSE <<>>)
         \o ExpectedLoop(n, b, g + 1)

IsLoopEvent(e) == e.ev \in {"batch", "validate", "sleep"}

LoopLog == SelectSeq(log, IsLoopEvent)

Returned == v_pc = "back" /\ ~v_ret.ret.raised

\* the remote call failed: the request, the status or the parsing raised
RemoteFailed ==
    \/ remote.kind = "raise" /\ IsException(remote.exc.type)
    \/ /\ remote.kind = "json"
       /\ \/ remote.body.type # "dict"
          \/ /\ remote.body.has_address
             /\ remote.body.address.type # "dict"

\* the remote call answered with an object whose address is absent or an
\* object
RemoteSucceeded ==
    /\ remote.kind = "json"
    /\ remote.body.type = "dict"
    /\ remote.body.has_address => remote.body.address.type = "dict"

\* the address object of a successful response ({} when there is none)
RemoteAddress ==
    IF remote.body.has_address THEN remote.body.address.obj ELSE <<>>

Present(f) == f \in DOMAIN RemoteAddress /\ NonEmpty(RemoteAddress[f])

ValidatedNull(r) ==
    /\ r["validated_STREET"] = None
    /\ r["validated_CITY"] = None
    /\ r["validated_STATE"] = None
    /\ r["validated_ZIPCode"] = None
    /\ r["validated_ZIPPlus4"] = None

OriginalsEchoed(r, details) ==
    /\ r["KEY"] = details["KEY"]
    /\ r["original_STREET"] = details["STREET"]
    /\ r["original_CITY"] = details["CITY"]
    /\ r["original_STATE"] = details["STATE"]
    /\ r["original_POST_CODE"] = details["POST_CODE"]

\* the token endpoint did not yield a usable token
TokenFailed ==
    \/ tokenOutcome.kind = "raise" /\ IsException(tokenOutcome.exc.type)
    \/ /\ tokenOutcome.kind = "json"
       /\ \/ tokenOutcome.body.type # "dict"
          \/ "access_token" \notin DOMAIN tokenOutcome.body.obj
          \/ ~NonEmpty(tokenOutcome.body.obj["access_token"])

\* no filename could be read, the typed name is no .csv name, the file
\* could not be looked up, or it is absent or unreadable
InputBad ==
    /\ loadRes.tag # "none"
    /\ \/ loadRes.inp.kind = "raise" /\ IsException(loadRes.inp.exc.type)
       \/ /\ loadRes.inp.kind = "line"
          /\ \/ ~EndsWith(Lower(Strip(loadRes.inp.text)), csv_ext)
             \/ loadRes.exists.kind = "raise"
             \/ ~loadRes.exists.value
             \/ loadRes.read \notin {"rows", "KeyboardInterrupt"}

\* the run has not touched data/validated_addresses.csv
NothingWritten == Count("to_csv") = 0 /\ output \in InitialFiles

---------------------------------------------------------------------------
(* The claims *)

\* C1: when the batch loop has finished, the result list holds exactly one
\* result per input record, the k-th carrying the KEY of the k-th record.
C1_ResultsMatchInput ==
    LoopFinished =>
        /\ Len(all_validated_results) = Len(df)
        /\ \A k \in 1..Len(df) :
            all_validated_results[k]["KEY"] = df[k]["KEY"]

\* C1 witness: a finished loop over three or more records with distinct keys,
\* some results failed and some valid.
C1_Witness ==
    /\ pc = "finalize"
    /\ Len(df) >= 3
    /\ df[1]["KEY"] # df[2]["KEY"]
    /\ \E k \in 1..Len(all_validated_results) :
        "error_message" \in DOMAIN all_validated_results[k]
    /\ \E k \in 1..Len(all_validated_results) :
        all_validated_results[k]["is_valid"]

\* C2 (as claimed): validate_usps_address never raises an exception to its
\* caller, whatever the record and whatever the remote endpoint does.
C2_NeverRaises ==
    v_pc = "back" =>
        ~(v_ret.ret.raised /\ IsException(v_ret.ret.exc.type))

\* C3: a failed remote call gives a result with is_valid false,
\* full_zip4 "ERROR", the validated fields null, the originals echoed and a
\* non-empty error_message.
C3_FailureResultNonEmptyMessage ==
    (Returned /\ RemoteFailed) =>
        LET r == v_ret.ret.value
        IN  /\ r["is_valid"] = FALSE
            /\ r["full_zip4"] = "ERROR"
            /\ ValidatedNull(r)
            /\ OriginalsEchoed(r, address_details)
            /\ "error_message" \in DOMAIN r
            /\ NonEmpty(r["error_message"])

\* C4: in every result the validator returns, is_valid is true exactly when
\* validated street, city, state and ZIPCode are all neither null nor empty.
C4_ValidIffCoreFields ==
    Returned =>
        LET r == v_ret.ret.value
        IN  r["is_valid"] <=>
                /\ NonEmpty(r["validated_STREET"])
                /\ NonEmpty(r["validated_CITY"])
                /\ NonEmpty(r["validated_STATE"])
                /\ NonEmpty(r["validated_ZIPCode"])

\* C4 witness: a success-path result whose ZIPCode is the empty string while
\* street, city and state are set, and which is therefore not valid.
C4_Witness ==
    /\ Returned
    /\ RemoteSucceeded
    /\ v_ret.ret.value["validated_ZIPCode"] = Str("")
    /\ NonEmpty(v_ret.ret.value["validated_STREET"])
    /\ NonEmpty(v_ret.ret.value["validated_CITY"])
    /\ NonEmpty(v_ret.ret.value["validated_STATE"])
    /\ ~v_ret.ret.value["is_valid"]

\* C5: for a successful response, full_zip4 is ZIPCode-ZIPPlus4 when both are
\* present, the bare ZIPCode when only it is present, and "N/A" when ZIPCode
\* is absent; a field the address object lacks maps to null, and the result
\* is no error result.
C5_FullZip4 ==
    (Returned /\ RemoteSucceeded) =>
        LET r == v_ret.ret.value
        IN  /\ r["full_zip4"] =
                 IF Present("ZIPCode") /\ Present("ZIPPlus4")
                     THEN RemoteAddress["ZIPCode"].v \o "-"
                            \o RemoteAddress["ZIPPlus4"].v
                 ELSE IF Present("ZIPCode") THEN RemoteAddress["ZIPCode"].v
                 ELSE "N/A"
            /\ "streetAddress" \notin DOMAIN RemoteAddress
                 => r["validated_STREET"] = None
            /\ "city" \notin DOMAIN RemoteAddress
                 => r["validated_CITY"] = None
            /\ "state" \notin DOMAIN RemoteAddress
                 => r["validated_STATE"] = None
            /\ "ZIPCode" \notin DOMAIN RemoteAddress
                 => r["validated_ZIPCode"] = None
            /\ "ZIPPlus4" \notin DOMAIN RemoteAddress
                 => r["validated_ZIPPlus4"] = None
            /\ "error_message" \notin DOMAIN r
            /\ r["full_zip4"] # "ERROR"

\* C5 witness: a successful response with a ZIPCode and no ZIPPlus4 field,
\* whose result carries the bare ZIPCode.
C5_Witness ==
    /\ Returned
    /\ RemoteSucceeded
    /\ Present("ZIPCode")
    /\ "ZIPPlus4" \notin DOMAIN RemoteAddress
    /\ v_ret.ret.value["full_zip4"] = "07030"
    /\ v_ret.ret.value["validated_ZIPPlus4"] = None

\* the output table holds every result, in input order
OutputHoldsAll ==
    /\ output.exists
    /\ output.cut = "none"
    /\ Len(output.rows) = Len(df)
    /\ \A k \in 1..Len(df) :
        /\ output.rows[k]["KEY"] = df[k]["KEY"]
        /\ \A c \in DOMAIN all_validated_results[k] :
            output.rows[k][c] = CsvCell(c, all_validated_results[k][c])

ValidCount ==
    Cardinality({k \in 1..Len(all_validated_results) :
                    all_validated_results[k]["is_valid"]})

\* C6: for every N, a run whose loop has finished and which has ended
\* uninterrupted with no valid result has written no output and exited with
\* code 1; with at least one valid result it has written all N results in
\* input order and exited with code 0.
C6_AnyLength ==
    RunEnded =>
        IF ValidCount = 0
            THEN NothingWritten /\ exit_status = Exited(1)
        ELSE OutputHoldsAll /\ exit_status = Exited(0)

\* C7: the loop handles the N records as ceil(N/B) contiguous groups in input
\* order, each of B records but possibly the last, and sleeps once after each
\* group but the last, after that group's records: what the loop has done is
\* always a prefix of that sequence, and all of it once the loop has finished.
C7_GroupsAndSleeps ==
    /\ IsPrefix(LoopLog, ExpectedLoop(Len(df), batch_size, 1))
    /\ (LoopFinished /\ Len(df) >= 1) =>
        /\ LoopLog = ExpectedLoop(Len(df), batch_size, 1)
        /\ Count("batch") = CeilDiv(Len(df), batch_size)
        /\ Count("sleep") = CeilDiv(Len(df), batch_size) - 1
        /\ Count("validate") = Len(df)

\* C7 witness: five records in batches of two: three groups, two sleeps.
C7_Witness ==
    /\ pc = "finalize"
    /\ Len(df) = 5
    /\ batch_size = 2
    /\ Count("batch") = 3
    /\ Count("sleep") = 2
    /\ Count("validate") = 5

\* C8: when the token endpoint yields no usable token the run goes no
\* further than its failure exit: the token request is its only call (no
\* input is asked for, no address call is issued), the code with which it
\* exits is 1, and only a user interrupt during the failure messages can
\* end it otherwise; in every run the token is requested at most once.
C8_TokenFailureAborts ==
    /\ Count("token_request") <= 1
    /\ (tokenOutcome.kind # "none" /\ TokenFailed) =>
        /\ pc \in {"token_failed", "auth_failed", "interrupted"}
        /\ pc = "token_failed" <=> exit_status = Running
        /\ pc = "auth_failed" <=> exit_status = Exited(1)
        /\ pc = "interrupted" <=> exit_status = Exited(130)
        /\ access_token = None
        /\ log = <<Event("token_request", 0)>>

\* C8 witness: the token endpoint answered with an empty access_token and
\* the run has exited.
C8_Witness ==
    /\ pc = "auth_failed"
    /\ tokenOutcome.kind = "json"
    /\ tokenOutcome.body.type = "dict"
    /\ DictGet(tokenOutcome.body.obj, "access_token") = Str("")

\* C9 (as claimed): a run that an input-loading failure has ended has exit
\* code 1 and has made no remote call: no token request and no address
\* request.
C9_NoRemoteCallBeforeInputFailure ==
    (InputBad /\ pc = "input_failed") =>
        /\ exit_status = Exited(1)
        /\ Count("token_request") = 0
        /\ Count("address_request") = 0

\* C9 (amended): after an input-loading failure the run goes no further
\* than its failure exit, whose code is 1 (only a user interrupt during the
\* failure message can end it otherwise), and makes no address-verification
\* request; the token request has been made by then, once, and has
\* succeeded.
C9_NoAddressCallAfterInputFailure ==
    InputBad =>
        /\ pc \in {"input_rejected", "input_failed", "interrupted"}
        /\ pc = "input_rejected" <=> exit_status = Running
        /\ pc = "input_failed" <=> exit_status = Exited(1)
        /\ pc = "interrupted" <=> exit_status = Exited(130)
        /\ df = <<>>
        /\ Count("address_request") = 0
        /\ Count("validate") = 0
        /\ log = <<Event("token_request", 0), Event("load_input_csv", 0)>>
        /\ NonEmpty(access_token)

\* C9 witness: a well-named file, typed between white space, whose look-up
\* in data/ raised has ended the run.
C9_Witness ==
    /\ pc = "input_failed"
    /\ loadRes.tag = "raise"
    /\ loadRes.inp.kind = "line"
    /\ Len(loadRes.inp.text) > Len(Strip(loadRes.inp.text))
    /\ EndsWith(Lower(Strip(loadRes.inp.text)), csv_ext)
    /\ loadRes.exists.kind = "raise"

\* C10: the output is written at most once and only when every record has
\* been validated exactly once; while fewer than N records have a result
\* nothing has been written, and no record reaches the validator twice.
C10_OutputOnlyAfterAll ==
    /\ Count("to_csv") <= 1
    /\ output \notin InitialFiles => Count("to_csv") = 1
    /\ (loadRes.tag # "return" \/ Len(all_validated_results) < Len(df)) =>
        NothingWritten
    /\ \A idx \in 0..MaxRows : Submitted(idx) <= 1
    /\ Count("to_csv") = 1 =>
        \A idx \in 0..(Len(df) - 1) : Submitted(idx) = 1

\* C10 witness: a run interrupted inside the GET of a record after two
\* others had their result: three address requests, two results, no output.
C10_Witness ==
    /\ pc = "interrupted"
    /\ Len(all_validated_results) = 2
    /\ Count("address_request") = 3
    /\ Len(df) >= 4
    /\ NothingWritten

=============================================================================
